---- MODULE Spec2Model ----
(***************************************************************************)
(* slchess::bitboard<files_, ranks_, always_check_range_>                  *)
(* (sources/bitboard.hpp), a coordinate-addressed board of bits kept in a  *)
(* std::bitset<files_ * ranks_>.                                           *)
(*                                                                         *)
(* The storage is modelled as the bitset's array of machine words: the set *)
(* of positions, counted from bit 0 of word 0, that hold a 1.  Positions   *)
(* size()..capacity()-1 are the slack of the last word.  The bitset        *)
(* members the header calls (set, reset, operator[], all, any, none,       *)
(* to_string, sizeof) are modelled as g++/libstdc++ builds them on a       *)
(* 64-bit target (observed with g++ 12).  An access past the word array of *)
(* a non-empty bitset leaves the object: it is undefined, and is a choice  *)
(* among returning normally, reading any value, and the process ending.    *)
(*                                                                         *)
(* size_t arithmetic is not wrapped: every coordinate offered is far below *)
(* 2^64 / files_, so rank * files_ + file never overflows here.            *)
(***************************************************************************)
EXTENDS Integers, Sequences, FiniteSets, TLC

VARIABLES
    files_,               \* template argument: number of files
    ranks_,               \* template argument: number of ranks
    always_check_range_,  \* template argument: the bounds-check policy
    fields,               \* std::bitset storage: positions of the 1 bits
    op,                   \* the member called last
    thrown,               \* what() of the std::out_of_range it threw, or NoError
    ret,                  \* the value it returned
    terminated            \* the process ended inside the call

vars == <<files_, ranks_, always_check_range_, fields, op, thrown, ret, terminated>>

template == <<files_, ranks_, always_check_range_>>

----------------------------------------------------------------------------
(* Bounds of the model *)

\* coordinates 0..MaxCoord are offered to every accessor
MaxCoord == 2
\* a coordinate so large that the index leaves the storage of every board of Boards
BigCoord == 64
\* the unsigned values offered to the converting constructor are 0..MaxValue
MaxValue == 16
\* SizeSpec instantiates every board of 0..MaxDim files and 0..MaxDim ranks
MaxDim == 10

\* the instantiations <<files_, ranks_>> of the accessor model
Boards ==
    {<<0, 0>>, <<0, 2>>, <<1, 0>>, <<1, 1>>, <<1, 3>>, <<2, 3>>}

Coords == (0 .. MaxCoord) \cup {BigCoord}

\* the small values, and one with bits 0, 15 and 30 set
Values == (0 .. MaxValue) \cup {2 ^ 30 + 2 ^ 15 + 1}

Chars == {"-", "x"}

----------------------------------------------------------------------------
(* Platform: a 64-bit target, unsigned long of 8 bytes *)

\* sizeof(unsigned long)
WordBytes == 8
\* bits in a byte, the factor of capacity()
ByteBits == 8
\* bits of unsigned long long, the constructor's argument
ULLongBits == 64

WordBits == WordBytes * ByteBits

----------------------------------------------------------------------------
(* Outcomes of a call *)

NoError == "no error"
FileTooLarge == "Requested file is too large."
RankTooLarge == "Requested rank is too large."

NoValue == "void"
Self == "*this"

\* File, Rank: explicit wrappers of a size_t, converting back to it
File(value) == value
Rank(value) == value

\* Square: a File and a Rank, converting to each
Square(file, rank) == [file |-> file, rank |-> rank]
SquareFile(square) == square.file
\* mutant: the conversion to Rank hands out the file
SquareRank_returns_file(square) == square.file
SquareRank(square) == square.rank

----------------------------------------------------------------------------
(* The index function *)

\* mutant: the index counts file by file
coordinates_to_index_by_file(file, rank, max_files) == file * max_files + rank

coordinates_to_index(file, rank, max_files) == rank * max_files + file

----------------------------------------------------------------------------
(* std::bitset<N> as the header uses it *)

\* number of unsigned long words of a bitset of n bits
words(n) == (n + WordBits - 1) \div WordBits

\* sizeof(std::bitset<n>): the word array, or 1 for the empty class
sizeof_fields(n) == IF words(n) = 0 THEN 1 ELSE words(n) * WordBytes

\* bits of the word array: the positions operator[] can reach inside the object
storage_bits(n) == words(n) * WordBits

\* fields.size()
fields_size(n) == n

\* mutant: every word all ones, the slack of the last word left set
fields_set_unsanitized(n) == 0 .. (storage_bits(n) - 1)

\* fields.set(): every word all ones, then the slack of the last word cleared
fields_set(n) == 0 .. (n - 1)

\* fields.reset(): every word 0
fields_reset(n) == {}

\* fields[pos] = value, pos inside the word array
fields_assign(w, pos, value) == IF value THEN w \cup {pos} ELSE w \ {pos}

\* fields[pos], pos inside the word array
fields_subscript(w, pos) == pos \in w

\* fields.all(): every full word is all ones and the last word equals the mask
\* of the n % WordBits low bits
fields_all(w, n) == w = 0 .. (n - 1)

\* fields.any(): some word is not 0
fields_any(w, n) == w # {}

\* fields.none(): !any()
fields_none(w, n) == ~fields_any(w, n)

\* mutant: the characters in index order, bit 0 first
fields_to_string_bit0_first(w, n, zero, one) ==
    [i \in 1 .. n |-> IF fields_subscript(w, i - 1) THEN one ELSE zero]

\* fields.to_string(zero, one): n characters, the one for bit n - i at
\* position i (1-based)
fields_to_string(w, n, zero, one) ==
    [i \in 1 .. n |-> IF fields_subscript(w, n - i) THEN one ELSE zero]

\* value >> k
RECURSIVE shift_right(_, _)
shift_right(value, k) ==
    IF k = 0 \/ value = 0 THEN value ELSE shift_right(value \div 2, k - 1)

\* mutant: word 0 takes the whole value, the bits from n on are kept
fields_from_value_uncut(value, n) ==
    {i \in 0 .. (ULLongBits - 1) : shift_right(value, i) % 2 = 1}

\* std::bitset<n>(value): word 0 takes the value, cut to n bits when n is less
\* than the width of unsigned long long; the other words are 0
fields_from_value(value, n) ==
    {i \in 0 .. (ULLongBits - 1) : i < n /\ shift_right(value, i) % 2 = 1}

\* mutant: the words are left as they were, here all ones
fields_default_uninitialized(n) == 0 .. (storage_bits(n) - 1)

\* the default constructor: every bit 0
fields_default(n) == {}

----------------------------------------------------------------------------
(* bitboard: private helpers *)

\* mutant: the rank is checked before the file
assert_rank_first(file, rank) ==
    IF rank >= ranks_ THEN RankTooLarge
    ELSE IF file >= files_ THEN FileTooLarge
    ELSE NoError

assert_field_coordinates(file, rank) ==
    IF file >= files_ THEN FileTooLarge
    ELSE IF rank >= ranks_ THEN RankTooLarge
    ELSE NoError

\* the index of (file, rank), and what the range check throws under the policy
make_index(file, rank) ==
    [pos    |-> coordinates_to_index(file, rank, files_),
     thrown |-> IF always_check_range_ THEN assert_field_coordinates(file, rank)
                ELSE NoError]

size == fields_size(files_ * ranks_)

capacity == sizeof_fields(files_ * ranks_) * ByteBits

\* the logical bits
Cells == 0 .. (size - 1)

\* the bits of the word array
Storage == 0 .. (storage_bits(files_ * ranks_) - 1)

----------------------------------------------------------------------------
(* How a call ends *)

Returns(value, w) ==
    /\ thrown' = NoError
    /\ terminated' = FALSE
    /\ ret' = value
    /\ fields' = w
    /\ UNCHANGED template

Throws(what) ==
    /\ thrown' = what
    /\ terminated' = FALSE
    /\ ret' = NoValue
    /\ fields' = fields
    /\ UNCHANGED template

Terminates ==
    /\ thrown' = NoError
    /\ terminated' = TRUE
    /\ ret' = NoValue
    /\ fields' = fields
    /\ UNCHANGED template

\* fields[pos] = value; return *this.  Inside the word array the bit is
\* written.  The empty bitset has no word: its operator[] throws from
\* _M_getword, and the members that write are noexcept whenever the range
\* check lets the call through, so the process ends.  Past the word array of
\* a bitset that has one, the write lands outside the object.
Write(pos, value) ==
    IF pos \in Storage
    THEN Returns(Self, fields_assign(fields, pos, value))
    ELSE IF Storage = {}
    THEN Terminates
    ELSE \/ Returns(Self, fields)
         \/ Terminates

\* return fields[pos].  Inside the word array the bit is read.  The empty
\* bitset reads as 0.  Past the word array of a bitset that has one, the read
\* is of memory outside the object.
Read(pos) ==
    IF pos \in Storage
    THEN Returns(fields_subscript(fields, pos), fields)
    ELSE IF Storage = {}
    THEN Returns(FALSE, fields)
    ELSE \/ \E b \in BOOLEAN : Returns(b, fields)
         \/ Terminates

----------------------------------------------------------------------------
(* bitboard: public members *)

\* mutant: the bit is written before the range check throws
set_at_writes_before_check(file, rank, value) ==
    LET index == make_index(file, rank)
    IN  IF index.thrown # NoError
        THEN /\ thrown' = index.thrown
             /\ terminated' = FALSE
             /\ ret' = NoValue
             /\ fields' = IF index.pos \in Storage
                           THEN fields_assign(fields, index.pos, value)
                           ELSE fields
             /\ UNCHANGED template
        ELSE Write(index.pos, value)

\* mutant: the value argument is dropped, the bit is always set
set_at_always_true(file, rank, value) ==
    LET index == make_index(file, rank)
    IN  IF index.thrown # NoError
        THEN Throws(index.thrown)
        ELSE Write(index.pos, TRUE)

set_at(file, rank, value) ==
    LET index == make_index(file, rank)
    IN  IF index.thrown # NoError
        THEN Throws(index.thrown)
        ELSE Write(index.pos, value)

\* mutant: reset writes true where it should write false
reset_at_writes_true(file, rank) ==
    LET index == make_index(file, rank)
    IN  IF index.thrown # NoError
        THEN Throws(index.thrown)
        ELSE Write(index.pos, TRUE)

reset_at(file, rank) ==
    LET index == make_index(file, rank)
    IN  IF index.thrown # NoError
        THEN Throws(index.thrown)
        ELSE Write(index.pos, FALSE)

get_at(file, rank) ==
    LET index == make_index(file, rank)
    IN  IF index.thrown # NoError
        THEN Throws(index.thrown)
        ELSE Read(index.pos)

\* mutant: test checks the range only under the policy, as get does
test_at_by_policy(file, rank) ==
    LET index == make_index(file, rank)
    IN  IF index.thrown # NoError
        THEN Throws(index.thrown)
        ELSE Read(index.pos)

test_at(file, rank) ==
    LET pos  == coordinates_to_index(file, rank, files_)
        what == assert_field_coordinates(file, rank)
    IN  IF what # NoError
        THEN Throws(what)
        ELSE Read(pos)

\* bitboard(unsigned long long value)
construct(value) ==
    /\ ~terminated
    /\ op' = "bitboard(value)"
    /\ Returns(NoValue, fields_from_value(value, files_ * ranks_))

\* set()
set_all ==
    /\ ~terminated
    /\ op' = "set()"
    /\ Returns(Self, fields_set(files_ * ranks_))

\* set(File, Rank, bool)
set(file, rank, value) ==
    /\ ~terminated
    /\ op' = "set(File,Rank,bool)"
    /\ set_at(file, rank, value)

\* set(Square, bool)
set_square(square, value) ==
    /\ ~terminated
    /\ op' = "set(Square,bool)"
    /\ set_at(SquareFile(square), SquareRank(square), value)

\* reset()
reset_all ==
    /\ ~terminated
    /\ op' = "reset()"
    /\ Returns(Self, fields_reset(files_ * ranks_))

\* reset(File, Rank)
reset(file, rank) ==
    /\ ~terminated
    /\ op' = "reset(File,Rank)"
    /\ reset_at(file, rank)

\* reset(Square)
reset_square(square) ==
    /\ ~terminated
    /\ op' = "reset(Square)"
    /\ reset_at(SquareFile(square), SquareRank(square))

\* get(File, Rank)
get(file, rank) ==
    /\ ~terminated
    /\ op' = "get(File,Rank)"
    /\ get_at(file, rank)

\* get(Square)
get_square(square) ==
    /\ ~terminated
    /\ op' = "get(Square)"
    /\ get_at(SquareFile(square), SquareRank(square))

\* test(File, Rank)
test(file, rank) ==
    /\ ~terminated
    /\ op' = "test(File,Rank)"
    /\ test_at(file, rank)

\* test(Square)
test_square(square) ==
    /\ ~terminated
    /\ op' = "test(Square)"
    /\ test_at(SquareFile(square), SquareRank(square))

\* Proxy: what operator[](File) hands out, the board and the file
Proxy(file) == [file |-> file]

\* mutant: the proxy reads through test, which always checks the range
proxy_subscript_by_test(proxy, rank) == test_at(proxy.file, rank)

\* Proxy::operator[](Rank): bb.get(file, rank)
proxy_subscript(proxy, rank) == get_at(proxy.file, rank)

\* operator[](File) and then operator[](Rank) on its Proxy: board[file][rank]
subscript(file, rank) ==
    /\ ~terminated
    /\ op' = "operator[]"
    /\ proxy_subscript(Proxy(file), rank)

\* to_string(empty_character, set_character)
to_string(empty_character, set_character) ==
    /\ ~terminated
    /\ op' = "to_string()"
    /\ Returns(fields_to_string(fields, files_ * ranks_, empty_character, set_character),
               fields)

\* all()
all ==
    /\ ~terminated
    /\ op' = "all()"
    /\ Returns(fields_all(fields, files_ * ranks_), fields)

\* none()
none ==
    /\ ~terminated
    /\ op' = "none()"
    /\ Returns(fields_none(fields, files_ * ranks_), fields)

\* any()
any ==
    /\ ~terminated
    /\ op' = "any()"
    /\ Returns(fields_any(fields, files_ * ranks_), fields)

\* size()
call_size ==
    /\ ~terminated
    /\ op' = "size()"
    /\ Returns(size, fields)

\* capacity()
call_capacity ==
    /\ ~terminated
    /\ op' = "capacity()"
    /\ Returns(capacity, fields)

----------------------------------------------------------------------------
(* The accessor model: a default-constructed board and every call on it *)

Init ==
    /\ \E b \in Boards : files_ = b[1] /\ ranks_ = b[2]
    /\ always_check_range_ \in BOOLEAN
    /\ fields = fields_default(files_ * ranks_)
    /\ op = "bitboard()"
    /\ thrown = NoError
    /\ ret = NoValue
    /\ terminated = FALSE

Next ==
    \/ \E value \in Values : construct(value)
    \/ set_all
    \/ \E file \in Coords, rank \in Coords, value \in BOOLEAN :
           set(File(file), Rank(rank), value)
    \/ \E file \in Coords, rank \in Coords, value \in BOOLEAN :
           set_square(Square(File(file), Rank(rank)), value)
    \/ reset_all
    \/ \E file \in Coords, rank \in Coords : reset(File(file), Rank(rank))
    \/ \E file \in Coords, rank \in Coords : reset_square(Square(File(file), Rank(rank)))
    \/ \E file \in Coords, rank \in Coords : get(File(file), Rank(rank))
    \/ \E file \in Coords, rank \in Coords : get_square(Square(File(file), Rank(rank)))
    \/ \E file \in Coords, rank \in Coords : test(File(file), Rank(rank))
    \/ \E file \in Coords, rank \in Coords : test_square(Square(File(file), Rank(rank)))
    \/ \E file \in Coords, rank \in Coords : subscript(File(file), Rank(rank))
    \/ \E empty_character \in Chars, set_character \in Chars :
           to_string(empty_character, set_character)
    \/ all
    \/ none
    \/ any
    \/ call_size
    \/ call_capacity

Spec == Init /\ [][Next]_vars

----------------------------------------------------------------------------
(* The size model: every instantiation up to MaxDim x MaxDim, freshly built *)

SizeInit ==
    /\ files_ \in 0 .. MaxDim
    /\ ranks_ \in 0 .. MaxDim
    /\ always_check_range_ \in BOOLEAN
    /\ fields = fields_default(files_ * ranks_)
    /\ op = "bitboard()"
    /\ thrown = NoError
    /\ ret = NoValue
    /\ terminated = FALSE

SizeNext ==
    \/ \E value \in Values : construct(value)
    \/ call_size
    \/ call_capacity
    \/ set_all
    \/ reset_all

SizeSpec == SizeInit /\ [][SizeNext]_vars

----------------------------------------------------------------------------
(* The write model: a default-constructed board driven by the members that   *)
(* change it.  The members that only read leave the bits alone, so the       *)
(* boards and bits reached are those of the accessor model; what a call of   *)
(* any member, reading or writing, does from each of them is stated with     *)
(* ENABLED.                                                                  *)

WriteNext ==
    \/ \E value \in Values : construct(value)
    \/ set_all
    \/ \E file \in Coords, rank \in Coords, value \in BOOLEAN :
           set(File(file), Rank(rank), value)
    \/ \E file \in Coords, rank \in Coords, value \in BOOLEAN :
           set_square(Square(File(file), Rank(rank)), value)
    \/ reset_all
    \/ \E file \in Coords, rank \in Coords : reset(File(file), Rank(rank))
    \/ \E file \in Coords, rank \in Coords : reset_square(Square(File(file), Rank(rank)))

WriteSpec == Init /\ [][WriteNext]_vars

----------------------------------------------------------------------------
(* Vocabulary of the properties *)

\* every valid (file, rank) of the board
ValidCoords == (0 .. (files_ - 1)) \X (0 .. (ranks_ - 1))

Valid(file, rank) == file < files_ /\ rank < ranks_

\* the bit of storage w that get(file, rank) addresses
Cell(w, file, rank) == fields_subscript(w, coordinates_to_index(file, rank, files_))

\* the transition is a call of get, set or reset with these coordinates
GetCall(file, rank) ==
    get(File(file), Rank(rank)) \/ get_square(Square(File(file), Rank(rank)))

SetCall(file, rank, value) ==
    \/ set(File(file), Rank(rank), value)
    \/ set_square(Square(File(file), Rank(rank)), value)

ResetCall(file, rank) ==
    reset(File(file), Rank(rank)) \/ reset_square(Square(File(file), Rank(rank)))

TestCall(file, rank) ==
    test(File(file), Rank(rank)) \/ test_square(Square(File(file), Rank(rank)))

AccessorCall(file, rank) ==
    \/ GetCall(file, rank)
    \/ \E value \in BOOLEAN : SetCall(file, rank, value)
    \/ ResetCall(file, rank)

GetNames == {"get(File,Rank)", "get(Square)"}
SetNames == {"set(File,Rank,bool)", "set(Square,bool)"}
ResetNames == {"reset(File,Rank)", "reset(Square)"}
TestNames == {"test(File,Rank)", "test(Square)"}
AccessorNames == GetNames \cup SetNames \cup ResetNames

\* the std::out_of_range a validated call with these coordinates must raise
Expected(file, rank) ==
    IF file >= files_ THEN FileTooLarge
    ELSE IF rank >= ranks_ THEN RankTooLarge
    ELSE NoError

----------------------------------------------------------------------------
(* C1: on a board with always_check_range_ = true, get, set and reset, by    *)
(* file and rank or by Square, raise "Requested file is too large." when the *)
(* file is >= files_ (also when the rank is too large as well), raise        *)
(* "Requested rank is too large." when only the rank is >= ranks_, and raise *)
(* nothing, and do not end the process, when both are in range.              *)
C1_StrictRangeErrors ==
    [][(always_check_range_ /\ op' \in AccessorNames) =>
          \A file \in Coords, rank \in Coords :
              AccessorCall(file, rank) =>
                  /\ thrown' = Expected(file, rank)
                  /\ ~terminated']_vars

\* a strict board holding a bit, on which get, set or reset has just raised
\* the rank error
C1_Witness ==
    /\ always_check_range_
    /\ op \in AccessorNames
    /\ thrown = RankTooLarge
    /\ fields # {}

----------------------------------------------------------------------------
(* C2: under either policy, test(f, r) and test(Square(f, r)) raise exactly  *)
(* when f >= files_ or r >= ranks_, naming the file when f >= files_ and the *)
(* rank otherwise; for valid coordinates they raise nothing and return what  *)
(* get(f, r) returns.                                                        *)
C2_TestAlwaysValidates ==
    [][(op' \in TestNames \cup GetNames) =>
          \A file \in Coords, rank \in Coords :
              /\ TestCall(file, rank) =>
                    /\ thrown' = Expected(file, rank)
                    /\ ~terminated'
                    /\ thrown' = NoError => ret' = Cell(fields, file, rank)
              /\ (Valid(file, rank) /\ GetCall(file, rank)) =>
                    /\ thrown' = NoError
                    /\ ~terminated'
                    /\ ret' = Cell(fields, file, rank)]_vars

\* a permissive board on which test has just raised the rank error
C2_Witness ==
    /\ ~always_check_range_
    /\ op \in TestNames
    /\ thrown = RankTooLarge

----------------------------------------------------------------------------
(* C3: under either policy, for valid (f, r) and any v, after set(f, r, v)   *)
(* get(f, r) returns v and every other valid cell reads as before.           *)
C3_SetGetRoundTrip ==
    [][(op' \in SetNames) =>
          \A file \in Coords, rank \in Coords, value \in BOOLEAN :
              (Valid(file, rank) /\ SetCall(file, rank, value)) =>
                  /\ thrown' = NoError
                  /\ ~terminated'
                  /\ Cell(fields', file, rank) = value
                  /\ \A d \in ValidCoords \ {<<file, rank>>} :
                        Cell(fields', d[1], d[2]) = Cell(fields, d[1], d[2])]_vars

\* a set of a valid cell has returned on a board that holds that bit and
\* leaves another valid cell clear
C3_Witness ==
    /\ op \in SetNames
    /\ thrown = NoError
    /\ ~terminated
    /\ \E c \in ValidCoords, d \in ValidCoords :
          c # d /\ Cell(fields, c[1], c[2]) /\ ~Cell(fields, d[1], d[2])

----------------------------------------------------------------------------
(* C4: on a board with always_check_range_ = false and size() < capacity(),  *)
(* a set or reset whose index rank * files_ + file lies in                   *)
(* [size(), capacity()) does not fail and changes no bit below size():       *)
(* every valid cell and the to_string() output are as before.                *)
InSlack(file, rank) ==
    /\ coordinates_to_index(file, rank, files_) >= size
    /\ coordinates_to_index(file, rank, files_) < capacity

C4_SlackWriteIsSafe ==
    [][(~always_check_range_ /\ size < capacity
            /\ op' \in SetNames \cup ResetNames) =>
          \A file \in Coords, rank \in Coords :
              (/\ InSlack(file, rank)
               /\ \/ ResetCall(file, rank)
                  \/ \E value \in BOOLEAN : SetCall(file, rank, value)) =>
                  /\ thrown' = NoError
                  /\ ~terminated'
                  /\ \A d \in ValidCoords :
                        Cell(fields', d[1], d[2]) = Cell(fields, d[1], d[2])
                  /\ \A zero \in Chars, one \in Chars :
                        fields_to_string(fields', files_ * ranks_, zero, one)
                            = fields_to_string(fields, files_ * ranks_, zero, one)]_vars

----------------------------------------------------------------------------
(* C5: in every reachable state, all() is true iff every valid cell is set,  *)
(* any() is true iff some valid cell is set, and none() is true iff no valid *)
(* cell is set.                                                              *)
EveryCellSet == \A c \in ValidCoords : Cell(fields, c[1], c[2])
SomeCellSet == \E c \in ValidCoords : Cell(fields, c[1], c[2])

C5_AggregatesOverCells ==
    ~terminated =>
        /\ fields_all(fields, files_ * ranks_) = EveryCellSet
        /\ fields_any(fields, files_ * ranks_) = SomeCellSet
        /\ fields_none(fields, files_ * ranks_) = ~SomeCellSet
        /\ (op = "all()") => (ret = EveryCellSet)
        /\ (op = "any()") => (ret = SomeCellSet)
        /\ (op = "none()") => (ret = ~SomeCellSet)

----------------------------------------------------------------------------
----------------------------------------------------------------------------
----------------------------------------------------------------------------
(* C8: to_string(empty_char, set_char) returns size() characters; position p *)
(* (0-based from the left) shows bit size()-1-p, so the cell (f, r) is at    *)
(* position size()-1-(r*files_+f) and index 0 comes last.  A 2x3 board gives *)
(* "------" when empty, "-----x" with only (0,0) set, "-x----" with only     *)
(* (0,2) set.                                                                *)
Shown(bit, zero, one) == IF bit THEN one ELSE zero

C8_ToString ==
    [][(op' = "to_string()") =>
          \A zero \in Chars, one \in Chars :
              to_string(zero, one) =>
                  /\ thrown' = NoError
                  /\ Len(ret') = size
                  /\ \A p \in 0 .. (size - 1) :
                        ret'[p + 1] = Shown((size - 1 - p) \in fields, zero, one)
                  /\ \A c \in ValidCoords :
                        ret'[size - 1 - coordinates_to_index(c[1], c[2], files_) + 1]
                            = Shown(Cell(fields, c[1], c[2]), zero, one)
                  /\ (files_ = 2 /\ ranks_ = 3 /\ zero = "-" /\ one = "x") =>
                        /\ (fields \cap Cells = {}) =>
                              ret' = <<"-", "-", "-", "-", "-", "-">>
                        /\ (fields \cap Cells = {coordinates_to_index(0, 0, 2)}) =>
                              ret' = <<"-", "-", "-", "-", "-", "x">>
                        /\ (fields \cap Cells = {coordinates_to_index(0, 2, 2)}) =>
                              ret' = <<"-", "x", "-", "-", "-", "-">>]_vars

\* the 2x3 board with only (0,2) set has been printed
C8_Witness ==
    /\ op = "to_string()"
    /\ files_ = 2
    /\ ranks_ = 3
    /\ fields \cap Cells = {coordinates_to_index(0, 2, 2)}
    /\ ret = <<"-", "x", "-", "-", "-", "-">>

----------------------------------------------------------------------------
(* C9: for every files_ and ranks_, in every state, size() = files_ * ranks_ *)
(* exactly, capacity() >= size(), and capacity() is a multiple of the word   *)
(* width; with 64-bit words the 2x3 and the 8x8 board have capacity 64 and   *)
(* the 10x10 board has capacity 128.                                         *)
C9_SizeAndCapacity ==
    /\ size = files_ * ranks_
    /\ capacity >= size
    /\ capacity % WordBits = 0
    /\ (op = "size()") => (ret = files_ * ranks_)
    /\ (op = "capacity()") => (ret >= size /\ ret % WordBits = 0)
    /\ (files_ = 2 /\ ranks_ = 3) => capacity = 64
    /\ (files_ = 8 /\ ranks_ = 8) => capacity = 64
    /\ (files_ = 10 /\ ranks_ = 10) => capacity = 128

----------------------------------------------------------------------------
(* C10: on a board with always_check_range_ = false, get, set and reset, by  *)
(* file and rank or by Square, never raise, whatever the coordinates, and    *)
(* act on exactly the bit rank * files_ + file: when that index is below     *)
(* capacity(), set(f, r, v) leaves that bit equal to v and every other bit   *)
(* as it was, so that get(f, r) then returns v, also in the slack, and an    *)
(* out-of-range file with an index below size() reaches the cell that has    *)
(* that index.                                                               *)
C10_PermissiveAccess ==
    [][(~always_check_range_ /\ op' \in AccessorNames) =>
          \A file \in Coords, rank \in Coords :
              LET pos == coordinates_to_index(file, rank, files_)
              IN  /\ AccessorCall(file, rank) => thrown' = NoError
                  /\ (pos < capacity) =>
                        /\ GetCall(file, rank) =>
                              /\ ~terminated'
                              /\ ret' = (pos \in fields)
                        /\ \A value \in BOOLEAN :
                              SetCall(file, rank, value) =>
                                  /\ ~terminated'
                                  /\ (pos \in fields') = value
                                  /\ fields' \ {pos} = fields \ {pos}
                        /\ ResetCall(file, rank) =>
                              /\ ~terminated'
                              /\ pos \notin fields'
                              /\ fields' \ {pos} = fields \ {pos}]_vars

----------------------------------------------------------------------------
(* C11: under either policy, in every state and for every (f, r),            *)
(* reset(f, r) and set(f, r, false) are equivalent: every way a reset call   *)
(* can end (the resulting bits, the std::out_of_range raised, the process    *)
(* ending) is a way set(f, r, false) can end from that state, and            *)
(* conversely; and a reset of a valid cell right after set() leaves exactly  *)
(* that cell false and every other valid cell true.                          *)
C11_ResetIsSetFalse ==
    \A file \in Coords, rank \in Coords :
        /\ ~ENABLED (ResetCall(file, rank) /\ ~set_at(file, rank, FALSE))
        /\ ~ENABLED (SetCall(file, rank, FALSE) /\ ~reset_at(file, rank))
        /\ (op = "set()" /\ Valid(file, rank)) =>
              ~ENABLED (/\ ResetCall(file, rank)
                        /\ ~(/\ thrown' = NoError
                             /\ ~terminated'
                             /\ ~Cell(fields', file, rank)
                             /\ \A d \in ValidCoords \ {<<file, rank>>} :
                                   Cell(fields', d[1], d[2])))

\* a reset has returned and left exactly one valid cell of several false
C11_Witness ==
    /\ op \in ResetNames
    /\ thrown = NoError
    /\ ~terminated
    /\ \E c \in ValidCoords :
          /\ ~Cell(fields, c[1], c[2])
          /\ ValidCoords # {c}
          /\ \A d \in ValidCoords \ {c} : Cell(fields, d[1], d[2])

----------------------------------------------------------------------------
(* C12: under either policy, in every state, for every (f, r) and every v,   *)
(* the Square form of set, reset, get and test behaves as the (file, rank)   *)
(* form: every way a call with Square(f, r) can end (the resulting bits, the *)
(* value returned, the std::out_of_range raised) is a way the call with f    *)
(* and r can end from that state, and conversely.                            *)
C12_SquareForms ==
    \A file \in Coords, rank \in Coords :
        LET square == Square(File(file), Rank(rank))
        IN  /\ \A value \in BOOLEAN :
                  /\ ~ENABLED (/\ set_square(square, value)
                               /\ ~set_at(File(file), Rank(rank), value))
                  /\ ~ENABLED (/\ set(File(file), Rank(rank), value)
                               /\ ~set_at(SquareFile(square), SquareRank(square), value))
            /\ ~ENABLED (/\ reset_square(square)
                         /\ ~reset_at(File(file), Rank(rank)))
            /\ ~ENABLED (/\ reset(File(file), Rank(rank))
                         /\ ~reset_at(SquareFile(square), SquareRank(square)))
            /\ ~ENABLED (/\ get_square(square)
                         /\ ~get_at(File(file), Rank(rank)))
            /\ ~ENABLED (/\ get(File(file), Rank(rank))
                         /\ ~get_at(SquareFile(square), SquareRank(square)))
            /\ ~ENABLED (/\ test_square(square)
                         /\ ~test_at(File(file), Rank(rank)))
            /\ ~ENABLED (/\ test(File(file), Rank(rank))
                         /\ ~test_at(SquareFile(square), SquareRank(square)))

\* set(Square) has returned and the one bit of the board is that of a cell
\* whose file differs from its rank
C12_Witness ==
    /\ op = "set(Square,bool)"
    /\ thrown = NoError
    /\ ~terminated
    /\ \E c \in ValidCoords :
          /\ c[1] # c[2]
          /\ fields = {coordinates_to_index(c[1], c[2], files_)}

----------------------------------------------------------------------------
(* C13: for every files_, ranks_ and policy, bitboard(value) does not fail,  *)
(* and on the board it builds a valid cell (f, r) is set exactly when bit    *)
(* r * files_ + f of value is 1; no bit at a position >= files_ * ranks_ is  *)
(* kept, and every cell of index >= 64, the width of the value, is false.    *)

\* bit i of value; the values offered are below 2^31
BitOfValue(value, i) == i < 31 /\ (value \div 2 ^ i) % 2 = 1

C13_ConstructFromValue ==
    \A value \in Values :
        ~ENABLED (/\ construct(value)
                  /\ ~(/\ thrown' = NoError
                       /\ ~terminated'
                       /\ \A c \in ValidCoords :
                             Cell(fields', c[1], c[2])
                                 = BitOfValue(value, coordinates_to_index(c[1], c[2], files_))
                       /\ \A pos \in fields' : pos < files_ * ranks_ /\ pos < ULLongBits))

\* a board of more than 64 cells built from the value 2^30 + 2^15 + 1
C13_Witness ==
    /\ op = "bitboard(value)"
    /\ thrown = NoError
    /\ ~terminated
    /\ files_ * ranks_ > ULLongBits
    /\ fields = {0, 15, 30}

----------------------------------------------------------------------------
(* C14: in every state and for every (file, rank), board[file][rank] ends as *)
(* get(file, rank) can end from that state, with the same value returned,    *)
(* and conversely; on a board with always_check_range_ = true it raises what *)
(* get raises, the file error when the file is too large and the rank error  *)
(* when only the rank is, on a board with always_check_range_ = false it     *)
(* raises nothing; and it leaves every bit of the board as it was.           *)
C14_DoubleSubscript ==
    \A file \in Coords, rank \in Coords :
        /\ ~ENABLED (/\ subscript(File(file), Rank(rank))
                     /\ ~(/\ get_at(File(file), Rank(rank))
                          /\ fields' = fields
                          /\ thrown' = (IF always_check_range_
                                        THEN Expected(file, rank)
                                        ELSE NoError)))
        /\ ~ENABLED (/\ get(File(file), Rank(rank))
                     /\ ~proxy_subscript(Proxy(File(file)), Rank(rank)))

\* board[file][rank] has returned true
C14_Witness ==
    /\ op = "operator[]"
    /\ thrown = NoError
    /\ ~terminated
    /\ ret = TRUE

----------------------------------------------------------------------------
(* C15: in every state and for every (f, r), when set, reset or get, by file *)
(* and rank, by Square or through board[f][r], or test under either policy,  *)
(* raises std::out_of_range, every bit of the storage, below size() and in   *)
(* the slack, is as it was before the call.                                  *)
C15_FailedCallChangesNothing ==
    \A file \in Coords, rank \in Coords :
        ~ENABLED (/\ \/ AccessorCall(file, rank)
                     \/ TestCall(file, rank)
                     \/ subscript(File(file), Rank(rank))
                  /\ thrown' # NoError
                  /\ fields' # fields)

\* set has raised the file error on a board whose only bit is the one the
\* index of file files_ in some rank reaches
C15_Witness ==
    /\ op \in SetNames
    /\ thrown = FileTooLarge
    /\ \E c \in ValidCoords :
          /\ c[1] + 1 = files_
          /\ c[2] + 1 < ranks_
          /\ fields = {coordinates_to_index(c[1], c[2], files_) + 1}

----------------------------------------------------------------------------
(* C16: the index rank * files_ + file maps the valid coordinates one to one *)
(* onto 0 .. size() - 1, for the board of the state and (a fact of the       *)
(* function alone, evaluated once, on the freshly built board) for every     *)
(* board of up to MaxDim files and ranks; a call of set, reset, get or       *)
(* board[f][r] on a board with always_check_range_ = true, or of test under  *)
(* either policy, that returns normally has its index below size(); and on a *)
(* board with always_check_range_ = true no bit from size() on is ever set.  *)

\* the indices of the valid coordinates of a board of the given dimensions
Indices(max_files, max_ranks) ==
    {coordinates_to_index(file, rank, max_files) :
        file \in 0 .. (max_files - 1), rank \in 0 .. (max_ranks - 1)}

\* distinct valid coordinates have distinct indices, and the indices are
\* 0 .. max_files * max_ranks - 1
Bijective(max_files, max_ranks) ==
    /\ Indices(max_files, max_ranks) = 0 .. (max_files * max_ranks - 1)
    /\ Cardinality(Indices(max_files, max_ranks)) = max_files * max_ranks

C16_IndexBijection ==
    /\ Bijective(files_, ranks_)
    /\ Indices(files_, ranks_) = Cells
    /\ (op = "bitboard()") =>
          \A max_files \in 0 .. MaxDim, max_ranks \in 0 .. MaxDim :
              Bijective(max_files, max_ranks)
    /\ \A file \in Coords, rank \in Coords :
          ~ENABLED (/\ \/ always_check_range_ /\ AccessorCall(file, rank)
                       \/ always_check_range_ /\ subscript(File(file), Rank(rank))
                       \/ TestCall(file, rank)
                    /\ thrown' = NoError
                    /\ ~terminated'
                    /\ coordinates_to_index(file, rank, files_) >= size)
    /\ always_check_range_ => fields \subseteq Cells

\* on a board of several files and ranks with always_check_range_ = true a
\* set has returned and the last cell is set
C16_Witness ==
    /\ always_check_range_
    /\ op \in SetNames
    /\ thrown = NoError
    /\ ~terminated
    /\ files_ > 1
    /\ ranks_ > 1
    /\ (size - 1) \in fields

====
